---- MODULE Spec2Model ----
(***************************************************************************)
(* A model of the playlist migration service: the HTTP front end's job     *)
(* state (musictransfer/app.py), the migration engine                      *)
(* (musictransfer/engine/migration_engine.py) and the retry / error        *)
(* wrappers (musictransfer/utils/error_handling.py).                       *)
(*                                                                         *)
(* Request handlers are coroutines without an await: they run one at a    *)
(* time on the event loop and are atomic with respect to each other.  A   *)
(* job runs on a thread of its own, so every statement of a job thread    *)
(* that touches the shared migration_status is a step of its own and may  *)
(* interleave with the handlers and with the other job threads.           *)
(***************************************************************************)
EXTENDS Integers, Sequences, FiniteSets, TLC

(***************************************************************************)
(* Bounds of the model.                                                    *)
(***************************************************************************)
\* Start requests that are accepted in one behaviour (job threads spawned).
MaxJobs == 2
\* Source playlists "n" (0 <= n <= MaxTracks) hold n items, all tracks.
MaxTracks == 3
\* Largest source playlist of the pagination specification SpecFetch.
MaxItems == 237
\* The calls of acquire() in one behaviour of SpecLimiter, and its last tick.
MaxAcquires == 4
MaxTime == 5
\* The largest max_calls and time_window (in ticks) of a RateLimiter.
MaxCalls == 2
MaxWindow == 2
\* The largest arguments of a retry_with_backoff decorator in SpecRetry.
MaxRetries == 3
MaxBase == 2
MaxCap == 5
\* The longest list of items handed to the conversion on its own.
MaxConvert == 3
\* The most playlists that the user's listing holds ahead of the one asked for.
MaxAhead == 50

(***************************************************************************)
(* Program constants.                                                      *)
(***************************************************************************)
\* _get_spotify_playlist: limit = 100
limit == 100
\* SpotifyConnector.get_current_user_playlists(limit=50, offset=0)
listing_limit == 50
\* @retry_with_backoff(max_retries=3, base_delay=1.0, max_delay=10.0)
max_retries == 3
\* @retry_with_backoff(max_retries=3, base_delay=1.0, max_delay=10.0), seconds
base_delay == 1
max_delay == 10
\* progress_callback(_, 4, _): the total of the 4-phase scale
total_steps == 4
\* _migrate_tracks: search_video(search_query, max_results=1)
max_results == 1

None == "None"

Jobs == 1..MaxJobs

(***************************************************************************)
(* Numbers.  progress is (current / total) * 100 on floats; the model      *)
(* keeps it exact, as a fraction in lowest terms.                          *)
(***************************************************************************)
RECURSIVE GCD(_, _)
GCD(a, b) == IF b = 0 THEN a ELSE GCD(b, a % b)

Frac(n, d) == LET g == GCD(n, d) IN [num |-> n \div g, den |-> d \div g]

FracLeq(x, y) == x.num * y.den <= y.num * x.den

\* Mutant: the callback does not divide by total.
Percent_undivided(current, total) == Frac(100 * current.num, current.den)

\* migration_progress_callback: (current / total) * 100
Percent(current, total) == Frac(100 * current.num, total * current.den)

(***************************************************************************)
(* Exceptions: the class, str(e), and which of the substrings the code     *)
(* looks for occur in str(e).                                              *)
(***************************************************************************)
Exc(cls, msg, tags) == [cls |-> cls, msg |-> msg, tags |-> tags]

NoExc == Exc("", "", {})

\* What a source connector call raises: a requests exception (a timeout, a
\* 5xx turned into HTTPError by raise_for_status), or refresh_access_token's
\* ValueError when a 401 meets a connector without refresh token.
SourceTimeout == Exc("RequestException", "Read timed out", {})

SourceNoRefresh ==
    Exc("ValueError", "No refresh token available", {"No refresh token available"})

\* What a destination connector call raises: the SDK's HttpError, or the
\* connector's ValueError when the credentials cannot be refreshed.
DestHttpError == Exc("HttpError", "<HttpError 500 Backend Error>", {})

DestExpired ==
    Exc("ValueError", "YouTube authentication has expired. Please re-authenticate with YouTube.",
        {"YouTube authentication has expired"})

\* handle_api_errors: the exception that leaves the decorator when e enters it
handle_api_errors(e) ==
    IF e.cls = "RequestException"
    THEN Exc("APIError", "Network request failed: " \o e.msg, e.tags)
    ELSE IF "401" \in e.tags
    THEN Exc("AuthenticationError",
             "Authentication failed, please check authentication information", {})
    ELSE IF "429" \in e.tags
    THEN Exc("RateLimitError",
             "API call frequency is too high, please try again later", {})
    ELSE Exc("APIError", "Operation failed: " \o e.msg, e.tags)

\* _create_youtube_playlist's except clause: authentication failures are
\* re-raised as a ValueError with a re-authentication message
CreateExcept(e) ==
    IF "No refresh token available" \in e.tags
       \/ "YouTube authentication has expired" \in e.tags
    THEN Exc("ValueError",
             "YouTube authentication has expired. Please re-authenticate with YouTube and try again.",
             {"YouTube authentication has expired"})
    ELSE e

(***************************************************************************)
(* The source catalogue.  The playlist with id ToString(n) holds the items *)
(* 1..n; "gone" is an id the listing does not contain.  In a playlist of   *)
(* at most MaxTracks items every item is a track; in a longer one only the *)
(* first and the last are (of the others, those at even places are         *)
(* episodes and those at odd places have lost their track).                *)
(*                                                                         *)
(* An item of a playlist page is a record of what the conversion reads of  *)
(* it: track = << the object under "track" >>, or << >> when the key is    *)
(* missing or null; id, type = the item's own "id" and "type" (0 and None  *)
(* when it has none); added_at = its "added_at" (None when missing).  An   *)
(* object is a record of its "id" and "type".                              *)
(***************************************************************************)
PlaylistId(n) == ToString(n)

BigPlaylist == limit + 1

TrackObject(id, type) == [id |-> id, type |-> type]

PlaylistItem(track, id, type, added_at) ==
    [track |-> track, id |-> id, type |-> type, added_at |-> added_at]

\* A timestamp as Spotify writes it
AddedAt == "2024-05-01T10:00:00Z"

IsTrack(n, k) == n <= MaxTracks \/ k \in {1, n}

SourceItem(n, k) ==
    IF IsTrack(n, k)
    THEN PlaylistItem(<< TrackObject(k, "track") >>, 0, None, AddedAt)
    ELSE IF k % 2 = 0
    THEN PlaylistItem(<< TrackObject(k, "episode") >>, 0, None, AddedAt)
    ELSE PlaylistItem(<< >>, 0, None, AddedAt)

SourceItems(n) == [k \in 1..n |-> SourceItem(n, k)]

\* The neutral Track, as far as the engine tells tracks apart
Track(id, added_at) == [id |-> id, added_at |-> added_at]

\* _spotify_tracks_to_common, line 76: the object that describes the track
track_info(item) ==
    IF item.track # << >> THEN item.track[1] ELSE TrackObject(item.id, item.type)

\* Mutant: the type of the object is not looked at.
Kept_untyped(item) == track_info(item).id # 0

\* _spotify_tracks_to_common, lines 78-79: the item is not skipped
Kept(item) == track_info(item).type = "track"

\* _spotify_tracks_to_common, lines 97-105: added_at with "Z" replaced by
\* "+00:00" and parsed; None when it is missing or does not parse
fromisoformat(added_at) ==
    IF added_at = AddedAt THEN "2024-05-01T10:00:00+00:00" ELSE None

\* _spotify_tracks_to_common, lines 81-126: the Track made of an item
TrackOf(item) == Track(track_info(item).id, fromisoformat(item.added_at))

\* The number of items of the source playlist with this id.
SourceSize(playlist_id) ==
    CHOOSE n \in 0..(MaxItems + BigPlaylist) : PlaylistId(n) = playlist_id

\* SpotifyConnector.get_playlist_tracks(playlist_id, limit, offset): the page
Page(n, lim, offset) ==
    IF offset >= n THEN << >>
    ELSE SubSeq(SourceItems(n), offset + 1, IF offset + lim <= n THEN offset + lim ELSE n)

\* The identifier the destination gives the playlist that job t creates.
YtId(t) == "PLyt" \o ToString(t)

(***************************************************************************)
(* Descriptions.                                                           *)
(***************************************************************************)
MigratingMsg(n) == "Migrating " \o ToString(n) \o " tracks..."

TallyMsg(migrated, total, failed) ==
    "Migrating tracks... (" \o ToString(migrated) \o "/" \o ToString(total)
        \o " successful, " \o ToString(failed) \o " failed)"

(***************************************************************************)
(* State.                                                                  *)
(***************************************************************************)
VARIABLES
    migration_status,  \* app.py: the process-wide job status
    nStarted,          \* the number of job threads spawned so far
    pc,                \* pc[t]: where job thread t stands
    loc,               \* loc[t]: the local variables of job thread t
    calls,             \* calls[t]: what job thread t has asked of the connectors
    response,          \* the HTTP response of the request this step served
    env,               \* the surroundings of this run, fixed from the start
    limiter,           \* a RateLimiter, its caller and the clock
    conn               \* the tokens that the two connectors hold

vars == << migration_status, nStarted, pc, loc, calls, response, env, limiter, conn >>

Status(running, progress, description, result, error) ==
    [running |-> running, progress |-> progress, description |-> description,
     result |-> result, error |-> error]

Response(code, detail, body) == [code |-> code, detail |-> detail, body |-> body]

NoResponse == Response(0, "", << >>)

InitLoc ==
    [playlist_id |-> "", attempt |-> 0, target |-> -1, offset |-> 0,
     items |-> << >>, data |-> << >>, tracks |-> << >>, ytid |-> None,
     i |-> 0, migrated |-> 0, failed |-> 0, exc |-> NoExc,
     cb_current |-> Frac(0, 1), cb_desc |-> "", ret |-> ""]

\* calls[t]: offsets = the offsets of the page requests of the running fetch
\* attempt; searches, nomatch, raised = the searches issued, those answered
\* with no usable match, those that raised; inserts, inserted = the insertion
\* requests issued and those that succeeded; lost = the tracks whose insertion
\* failed for good; tallies = the progress callbacks made from the track loop;
\* creates = the playlist creations asked for; attempts, failures = the calls
\* that the retry wrapper at work has made of the function it wraps, and those
\* of them that raised; requests, refreshes = the requests and the token
\* refreshes that the connectors have issued for that wrapper, denied = the
\* connector calls of the wrapper that a second 401 ended, delays = the
\* backoff waits of that wrapper, in seconds (all six forgotten at the next
\* progress report); expired = a call of the job has met a credential that
\* could not be renewed; limited = the thread is in the sleep of the
\* acquire() that precedes its next connector call; pauses = the inter-track
\* pauses taken; searched, added = the tracks searched for and the tracks
\* inserted into the destination playlist, in the order of the requests;
\* results = search_results, what the last search returned (forgotten at
\* the next progress report); acquires = the calls of acquire() made on the
\* engine's spotify_limiter and on its youtube_limiter, source_calls = the
\* calls of methods of the source connector (those of the source forgotten
\* at the next progress report); dropped = the items that attempts of the
\* fetch had collected when they failed (forgotten at the next progress
\* report).
InitCalls ==
    [offsets |-> << >>, searches |-> 0, nomatch |-> 0, raised |-> 0,
     inserts |-> 0, inserted |-> 0, lost |-> 0, tallies |-> 0,
     creates |-> 0, attempts |-> 0, failures |-> 0,
     requests |-> 0, refreshes |-> 0, denied |-> 0, expired |-> FALSE,
     delays |-> << >>, limited |-> FALSE, pauses |-> 0,
     searched |-> << >>, added |-> << >>, results |-> << >>,
     acquires |-> [spotify |-> 0, youtube |-> 0], source_calls |-> 0,
     dropped |-> 0]

\* env: jobs = the start requests the run accepts at most; requests = the
\* start requests that may arrive; source_errors, dest_errors = what the calls
\* to the two services may raise; answers = what may follow when a service
\* answers a request with 401; policy = the arguments of the engine's
\* retry_with_backoff decorators; ahead = the playlists that the user's
\* listing holds ahead of the one asked for.
Policy(retries, base, cap) ==
    [max_retries |-> retries, base_delay |-> base, max_delay |-> cap]

Env(jobs, requests, source_errors, dest_errors, answers) ==
    [jobs |-> jobs, requests |-> requests, source_errors |-> source_errors,
     dest_errors |-> dest_errors, answers |-> answers,
     policy |-> Policy(max_retries, base_delay, max_delay), ahead |-> 0]

\* A start request: the playlist id of its body, whether its session holds
\* both platform flags, and whether get_spotify_connector and
\* get_youtube_connector return a connector for it.
StartRequest(playlist_id, authenticated, spotify_conn, youtube_conn) ==
    [playlist_id |-> playlist_id, authenticated |-> authenticated,
     spotify_conn |-> spotify_conn, youtube_conn |-> youtube_conn]

\* The requests that fail one of the handler's checks, and the sound ones.
BadRequests ==
    { StartRequest("", TRUE, TRUE, TRUE), StartRequest(PlaylistId(1), FALSE, TRUE, TRUE),
      StartRequest(PlaylistId(1), TRUE, FALSE, TRUE),
      StartRequest(PlaylistId(1), TRUE, TRUE, FALSE) }

GoodRequests(ids) == { StartRequest(id, TRUE, TRUE, TRUE) : id \in ids }

(***************************************************************************)
(* Credentials.  A connector holds an access token and a refresh token     *)
(* (None when it holds none); a token response carries an access token and *)
(* may carry a refresh token.                                              *)
(***************************************************************************)
AccessTokens == {"at1", "at2"}

RefreshTokens == {"rt1", "rt2"}

Tokens(access_token, refresh_token) ==
    [access_token |-> access_token, refresh_token |-> refresh_token]

\* The JSON body of a token response; None: the key is missing.
TokenInfo(access_token, refresh_token) ==
    [access_token |-> access_token, refresh_token |-> refresh_token]

TokenInfos == { TokenInfo(a, r) : a \in AccessTokens, r \in RefreshTokens \cup {None} }

\* The answer of the token endpoint: the status and, with 200, the body.
\* Status 0: there is no answer, requests.post raises.
TokenResponse(status, token_info) == [status |-> status, token_info |-> token_info]

TokenResponses ==
    { TokenResponse(200, i) : i \in TokenInfos }
        \cup { TokenResponse(st, TokenInfo(None, None)) : st \in {0, 400, 500} }

ConnectionError == Exc("RequestException", "Connection aborted.", {})

\* What a connector method leaves behind: the connector and what it raised.
Outcome(c, e) == [conn |-> c, exc |-> e]

\* SpotifyConnector.exchange_code_for_token, lines 79-81
spotify_exchange_code_for_token(c, token_info) ==
    Tokens(token_info.access_token, token_info.refresh_token)

\* SpotifyConnector.refresh_access_token
spotify_refresh_access_token(c, resp) ==
    IF c.refresh_token = None
    THEN Outcome(c, Exc("ValueError", "No refresh token available",
                        {"No refresh token available"}))
    ELSE IF resp.status = 0
    THEN Outcome(c, ConnectionError)
    ELSE IF resp.status # 200
    THEN Outcome(c, Exc("RequestException",
                        ToString(resp.status) \o " Error for url: https://accounts.spotify.com/api/token",
                        IF resp.status = 401 THEN {"401"} ELSE {}))
    ELSE Outcome([c EXCEPT !.access_token = resp.token_info.access_token], NoExc)

\* YouTubeMusicConnector._update_tokens, lines 375-381
update_tokens(c, token_info) ==
    [c EXCEPT !.access_token = IF token_info.access_token # None
                               THEN token_info.access_token ELSE @,
              !.refresh_token = IF token_info.refresh_token # None
                                THEN token_info.refresh_token ELSE @]

\* YouTubeMusicConnector.apply_token_info
apply_token_info(c, token_info) ==
    LET token_data ==
            IF token_info.refresh_token = None /\ c.refresh_token # None
            THEN [token_info EXCEPT !.refresh_token = c.refresh_token]
            ELSE token_info
    IN  update_tokens(c, token_data)

\* YouTubeMusicConnector.exchange_code_for_token, lines 97-99
youtube_exchange_code_for_token(c, token_info) == update_tokens(c, token_info)

\* Mutant: a refresh that is rejected with 4xx keeps the refresh token.
youtube_refresh_access_token_keeps(c, resp) ==
    IF c.refresh_token = None
    THEN Outcome(c, Exc("ValueError",
                        "No refresh token available. Please re-authenticate with YouTube.",
                        {"No refresh token available"}))
    ELSE IF resp.status = 0
    THEN Outcome(c, ConnectionError)
    ELSE IF resp.status # 200 /\ resp.status >= 400 /\ resp.status < 500
    THEN Outcome(c,
                 Exc("ValueError",
                     "YouTube authentication has expired. Please re-authenticate with YouTube.",
                     {"YouTube authentication has expired"}))
    ELSE IF resp.status # 200
    THEN Outcome(c, Exc("RequestException",
                        ToString(resp.status) \o " Server Error for url: https://oauth2.googleapis.com/token",
                        {}))
    ELSE Outcome(update_tokens(c, resp.token_info), NoExc)

\* YouTubeMusicConnector.refresh_access_token
youtube_refresh_access_token(c, resp) ==
    IF c.refresh_token = None
    THEN Outcome(c, Exc("ValueError",
                        "No refresh token available. Please re-authenticate with YouTube.",
                        {"No refresh token available"}))
    ELSE IF resp.status = 0
    THEN Outcome(c, ConnectionError)
    ELSE IF resp.status # 200 /\ resp.status >= 400 /\ resp.status < 500
    THEN Outcome([c EXCEPT !.refresh_token = None],
                 Exc("ValueError",
                     "YouTube authentication has expired. Please re-authenticate with YouTube.",
                     {"YouTube authentication has expired"}))
    ELSE IF resp.status # 200
    THEN Outcome(c, Exc("RequestException",
                        ToString(resp.status) \o " Server Error for url: https://oauth2.googleapis.com/token",
                        {}))
    ELSE Outcome(update_tokens(c, resp.token_info), NoExc)

\* YouTubeMusicConnector.is_authenticated
is_authenticated(c) == c.access_token # None

\* What a connector call leaves behind: the connector, what it raised, the
\* requests and token refreshes it issued, whether a second 401 ended it, and
\* whether it found that the credential cannot be renewed.
Called(c, e, requests, refreshes, denied, expired) ==
    [conn |-> c, exc |-> e, requests |-> requests, refreshes |-> refreshes,
     denied |-> denied, expired |-> expired]

\* What follows a 401: the token endpoint's answer to the refresh, and the
\* status of the request when it is issued again.
Answer(refresh, second) == [refresh |-> refresh, second |-> second]

NoAccessToken ==
    Exc("ValueError", "No access token available. Please authenticate first.", {})

\* googleapiclient's HttpError and requests' HTTPError for a 401
HttpError401 == Exc("HttpError", "<HttpError 401 \"Invalid Credentials\">", {"401"})

Unauthorized ==
    Exc("RequestException", "401 Client Error: Unauthorized for url", {"401", "Unauthorized"})

\* SpotifyConnector._make_authenticated_request when the first answer is 401
make_authenticated_request(c, a) ==
    IF c.access_token = None
    THEN Called(c, NoAccessToken, 0, 0, FALSE, FALSE)
    ELSE LET o == spotify_refresh_access_token(c, a.refresh)
         IN  IF o.exc # NoExc
             THEN Called(o.conn, o.exc, 1, IF c.refresh_token = None THEN 0 ELSE 1, FALSE,
                         c.refresh_token = None
                            \/ (a.refresh.status >= 400 /\ a.refresh.status < 500))
             ELSE IF a.second = 401
             THEN Called(o.conn, Unauthorized, 2, 1, TRUE, FALSE)
             ELSE Called(o.conn, NoExc, 2, 1, FALSE, FALSE)

\* YouTubeMusicConnector._execute_with_refresh when the first answer is 401
execute_with_refresh(c, a) ==
    IF c.access_token = None
    THEN Called(c, NoAccessToken, 0, 0, FALSE, FALSE)
    ELSE IF c.refresh_token = None
    THEN Called(c, HttpError401, 1, 0, FALSE, TRUE)
    ELSE LET o == youtube_refresh_access_token(c, a.refresh)
         IN  IF o.exc # NoExc
             THEN Called(o.conn, o.exc, 1, 1, FALSE,
                         a.refresh.status >= 400 /\ a.refresh.status < 500)
             ELSE IF a.second = 401
             THEN Called(o.conn, HttpError401, 2, 1, TRUE, FALSE)
             ELSE Called(o.conn, NoExc, 2, 1, FALSE, FALSE)

\* The last token response applied to a connector: to which, by which
\* method, the response, and the refresh token the connector held before.
Applied(connector, op, token_info, held) ==
    [connector |-> connector, op |-> op, token_info |-> token_info, held |-> held]

\* The last refresh of the destination connector, if it raised: the status
\* of the token endpoint's answer, the exception, and the refresh token the
\* connector held before.
Refused(status, exc, held) == [status |-> status, exc |-> exc, held |-> held]

NotRefused == Refused(200, NoExc, None)

\* The connectors of a session that has authenticated with both platforms:
\* app.py's SPOTIFY_CONNECTOR and YOUTUBE_CONNECTOR, the objects that
\* start_migration hands to the job thread.  session: the session still
\* holds youtube_authenticated and YOUTUBE_CONNECTOR is still bound.
Connectors(spotify, youtube) ==
    [spotify |-> spotify, youtube |-> youtube,
     last |-> Applied("", "", TokenInfo(None, None), None),
     refused |-> NotRefused, session |-> TRUE]

\* RateLimiter.__init__, with the clock at 0 and the caller outside acquire().
\* calls = self.calls; now = the local of the acquire() under way; wake = the
\* time its sleep ends; sleep_time = the last wait computed; invoked, returned
\* = the times at which the calls of acquire() so far were made and returned.
RateLimiter(max_calls, time_window) ==
    [max_calls |-> max_calls, time_window |-> time_window, calls |-> << >>,
     clock |-> 0, at |-> "out", now |-> 0, wake |-> 0, sleep_time |-> 0,
     invoked |-> << >>, returned |-> << >>]

\* What is the same in every initial state (app.py, module level; the
\* engine's youtube_limiter).
Idle ==
    /\ limiter = RateLimiter(5, 1)
    /\ conn = Connectors(Tokens("at1", "rt1"), Tokens("at1", "rt1"))
    /\ migration_status = Status(FALSE, Frac(0, 1), "", None, None)
    /\ nStarted = 0
    /\ pc = [t \in Jobs |-> "idle"]
    /\ loc = [t \in Jobs |-> InitLoc]
    /\ calls = [t \in Jobs |-> InitCalls]
    /\ response = NoResponse

\* Several jobs, one after the other, on short playlists.
Init ==
    /\ Idle
    /\ env = Env(MaxJobs, GoodRequests({"gone", PlaylistId(0), PlaylistId(1)}),
                 {SourceTimeout}, {DestHttpError}, {})

\* One job, on every playlist of the catalogue and with every failure.
InitEngine ==
    /\ Idle
    /\ env = Env(1,
                 BadRequests \cup GoodRequests({"gone", PlaylistId(BigPlaylist)}
                                 \cup {PlaylistId(n) : n \in 0..MaxTracks}),
                 {SourceTimeout, SourceNoRefresh}, {DestHttpError, DestExpired}, {})

(***************************************************************************)
(* The request handlers (app.py).                                          *)
(***************************************************************************)
Reject(detail) ==
    /\ response' = Response(400, detail, << >>)
    /\ UNCHANGED << migration_status, nStarted, pc, loc, calls, env, limiter, conn >>

\* threading.Thread(target=run_migration, args=(playlist_id, ...)).start()
SpawnJob(playlist_id) ==
    /\ nStarted < env.jobs
    /\ UNCHANGED << env, limiter, conn >>
    /\ nStarted' = nStarted + 1
    /\ pc' = [pc EXCEPT ![nStarted + 1] = "run_migration"]
    /\ loc' = [loc EXCEPT ![nStarted + 1] = [InitLoc EXCEPT !.playlist_id = playlist_id]]
    /\ calls' = [calls EXCEPT ![nStarted + 1] = InitCalls]

\* start_migration, lines 455-487: after the running check
StartBody(playlist_id, authenticated, spotify_conn, youtube_conn) ==
    IF playlist_id = ""
    THEN Reject("Missing playlist ID")
    ELSE IF ~authenticated
    THEN Reject("Please complete platform authentication first")
    ELSE IF ~spotify_conn
    THEN Reject("Unable to initialize Spotify connector")
    ELSE IF ~youtube_conn
    THEN Reject("YouTube authentication has expired. Please re-authenticate with YouTube.")
    ELSE /\ migration_status' =
                Status(TRUE, Frac(0, 1), "Starting migration...", None, None)
         /\ SpawnJob(playlist_id)
         /\ response' = Response(200, "started", << >>)

\* Mutant: the handler does not look at running.
start_migration_unchecked(playlist_id, authenticated, spotify_conn, youtube_conn) ==
    StartBody(playlist_id, authenticated, spotify_conn, youtube_conn)

\* Mutant: the handler resets the status before it looks at running.
start_migration_reset_first(playlist_id, authenticated, spotify_conn, youtube_conn) ==
    IF migration_status.running
    THEN /\ migration_status' =
                Status(TRUE, Frac(0, 1), "Starting migration...", None, None)
         /\ response' = Response(400, "Migration already in progress", << >>)
         /\ UNCHANGED << nStarted, pc, loc, calls, env, limiter, conn >>
    ELSE StartBody(playlist_id, authenticated, spotify_conn, youtube_conn)

\* POST /api/migrate.  authenticated: the session holds both platform flags;
\* spotify_conn, youtube_conn: get_*_connector(request) returned a connector.
start_migration(playlist_id, authenticated, spotify_conn, youtube_conn) ==
    IF migration_status.running
    THEN Reject("Migration already in progress")
    ELSE StartBody(playlist_id, authenticated, spotify_conn, youtube_conn)

\* Mutant: the poll is served by the context that runs the job, and so only
\* when no job is inside a time.sleep.
get_migration_status_inline ==
    /\ \A t \in Jobs :
          /\ ~calls[t].limited
          /\ pc[t] \notin {"fetch_backoff", "create_backoff", "add_backoff", "track_sleep"}
    /\ response' = Response(200, "", << migration_status >>)
    /\ UNCHANGED << migration_status, nStarted, pc, loc, calls, env, limiter, conn >>

\* GET /api/migration/status
get_migration_status ==
    /\ response' = Response(200, "", << migration_status >>)
    /\ UNCHANGED << migration_status, nStarted, pc, loc, calls, env, limiter, conn >>

(***************************************************************************)
(* A job thread.  Thread(t, p, l, c): thread t moves to p with locals l    *)
(* and call record c.  What becomes of the connectors is said by the       *)
(* action.                                                                 *)
(***************************************************************************)
Thread(t, p, l, c) ==
    /\ pc' = [pc EXCEPT ![t] = p]
    /\ loc' = [loc EXCEPT ![t] = l]
    /\ calls' = [calls EXCEPT ![t] = c]
    /\ response' = NoResponse
    /\ UNCHANGED << nStarted, env, limiter >>

\* progress_callback(current, 4, description), then go on at ret
Callback(l, current, description, ret) ==
    [l EXCEPT !.cb_current = current, !.cb_desc = description, !.ret = ret]

\* migration_progress_callback, line 544
cb_progress(t) ==
    /\ pc[t] = "cb_progress"
    /\ UNCHANGED conn
    /\ migration_status' =
          [migration_status EXCEPT !.progress = Percent(loc[t].cb_current, total_steps)]
    /\ Thread(t, "cb_description", loc[t],
              [calls[t] EXCEPT !.tallies = IF loc[t].ret = "track_sleep" THEN @ + 1 ELSE @,
                               !.attempts = 0, !.failures = 0,
                               !.requests = 0, !.refreshes = 0, !.denied = 0,
                               !.delays = << >>, !.results = << >>,
                               !.acquires.spotify = 0, !.source_calls = 0,
                               !.dropped = 0])

\* migration_progress_callback, line 545
cb_description(t) ==
    /\ pc[t] = "cb_description"
    /\ UNCHANGED conn
    /\ migration_status' = [migration_status EXCEPT !.description = loc[t].cb_desc]
    /\ Thread(t, loc[t].ret, loc[t], calls[t])

\* run_migration up to the engine's first progress report
run_migration(t) ==
    /\ pc[t] = "run_migration"
    /\ Thread(t, "cb_progress",
              Callback(loc[t], Frac(0, 1), "Getting Spotify playlist information...",
                       "fetch_list"),
              calls[t])
    /\ UNCHANGED << migration_status, conn >>

\* What run_migration still holds once migrate_playlist has returned or raised
Returned(l) ==
    [InitLoc EXCEPT !.ytid = l.ytid, !.exc = l.exc, !.tracks = l.tracks,
                    !.migrated = l.migrated, !.failed = l.failed]

\* What is still known of the calls of a job whose migrate_playlist is over
Ended(c) == [InitCalls EXCEPT !.expired = c.expired]

\* run_migration, line 525
rm_running(t) ==
    /\ pc[t] = "rm_success"
    /\ UNCHANGED conn
    /\ migration_status' = [migration_status EXCEPT !.running = FALSE]
    /\ Thread(t, "rm_result", Returned(loc[t]), Ended(calls[t]))

\* run_migration, line 526
rm_result(t) ==
    /\ pc[t] = "rm_result"
    /\ UNCHANGED conn
    /\ migration_status' = [migration_status EXCEPT !.result = loc[t].ytid]
    /\ Thread(t, "rm_description", loc[t], calls[t])

\* run_migration, line 527; the thread ends
rm_description(t) ==
    /\ pc[t] = "rm_description"
    /\ UNCHANGED conn
    /\ migration_status' = [migration_status EXCEPT !.description = "Migration completed!"]
    /\ Thread(t, "done", InitLoc, InitCalls)

\* Mutant: run_migration has no exception handler; the thread just dies.
rm_except_uncaught(t) ==
    /\ pc[t] = "rm_except"
    /\ UNCHANGED << migration_status, conn >>
    /\ Thread(t, "done", InitLoc, InitCalls)

\* run_migration, lines 529-531
rm_except(t) ==
    /\ pc[t] = "rm_except"
    /\ UNCHANGED conn
    /\ migration_status' = [migration_status EXCEPT !.running = FALSE]
    /\ Thread(t, "rm_error", [InitLoc EXCEPT !.exc = loc[t].exc], Ended(calls[t]))

\* run_migration, line 532
rm_error(t) ==
    /\ pc[t] = "rm_error"
    /\ UNCHANGED conn
    /\ migration_status' = [migration_status EXCEPT !.error = loc[t].exc.msg]
    /\ Thread(t, "rm_failed", loc[t], calls[t])

\* run_migration, lines 534-537; the thread ends
rm_failed(t) ==
    /\ pc[t] = "rm_failed"
    /\ UNCHANGED conn
    /\ migration_status' =
          [migration_status EXCEPT !.description =
              IF "No refresh token available" \in loc[t].exc.tags
                 \/ "YouTube authentication has expired" \in loc[t].exc.tags
              THEN "Migration failed: YouTube authentication has expired. Please re-authenticate with YouTube and try again."
              ELSE "Migration failed: " \o loc[t].exc.msg]
    /\ Thread(t, "done", InitLoc, InitCalls)

(***************************************************************************)
(* A call of a connector method by the engine: the request is answered, or *)
(* the call raises, or the request meets a 401.                            *)
(***************************************************************************)
SourceCalls ==
    { Called(conn.spotify, NoExc, 1, 0, FALSE, FALSE) }
        \cup { Called(conn.spotify, e, 1, 0, FALSE, FALSE) : e \in env.source_errors }
        \cup { make_authenticated_request(conn.spotify, a) : a \in env.answers }

DestCalls ==
    { Called(conn.youtube, NoExc, 1, 0, FALSE, FALSE) }
        \cup { Called(conn.youtube, e, 1, 0, FALSE, FALSE) : e \in env.dest_errors }
        \cup { execute_with_refresh(conn.youtube, a) : a \in env.answers }

\* The call record c once the call r has been made
Charge(c, r) ==
    [c EXCEPT !.requests = @ + r.requests, !.refreshes = @ + r.refreshes,
              !.denied = @ + (IF r.denied THEN 1 ELSE 0),
              !.expired = @ \/ r.expired, !.limited = FALSE]

(***************************************************************************)
(* The engine (migration_engine.py).  Every action that calls a connector  *)
(* method begins with the acquire() that the code makes just before the    *)
(* call.  loc[t].items is the local list                                   *)
(* `tracks` of _get_spotify_playlist; loc[t].data is migrate_playlist's    *)
(* spotify_playlist_data: << >> while unbound, << items >> once the fetch  *)
(* has returned.                                                           *)
(***************************************************************************)
\* Mutant: the engine has one limiter for both services.
Acquired_shared(c, service) ==
    [c EXCEPT !.acquires = [s \in DOMAIN @ |-> @[s] + 1]]

\* self.spotify_limiter.acquire(), self.youtube_limiter.acquire(): lines 111,
\* 133, 171, 223 and 291
Acquired(c, service) == [c EXCEPT !.acquires[service] = @ + 1]

\* Mutant: the wrapper gives up one attempt early.
Retry_one_less(attempt) == attempt + 1 # env.policy.max_retries

\* retry_with_backoff, line 66: a failed attempt is followed by another one
Retry(attempt) == attempt # env.policy.max_retries

Min(a, b) == IF a <= b THEN a ELSE b

\* Mutant: the backoff is not capped.
Delay_uncapped(attempt) == env.policy.base_delay * 2 ^ attempt

\* retry_with_backoff, line 71: delay = min(base_delay * (2 ** attempt), max_delay)
Delay(attempt) == Min(env.policy.base_delay * 2 ^ attempt, env.policy.max_delay)

\* retry_with_backoff, lines 71-78, after the failure of the attempt at hand:
\* the wrapper works out the delay and goes to sleep
Backoff(t, p) ==
    Thread(t, p, [loc[t] EXCEPT !.exc = NoExc],
           [calls[t] EXCEPT !.delays = Append(@, Delay(loc[t].attempt))])

\* retry_with_backoff, line 78 and line 62: the sleep is over, the next
\* attempt begins
BackoffOver(t) ==
    /\ pc[t] \in {"fetch_backoff", "create_backoff", "add_backoff"}
    /\ UNCHANGED << migration_status, conn >>
    /\ Thread(t,
              CASE pc[t] = "fetch_backoff" -> "fetch_list"
                [] pc[t] = "create_backoff" -> "create"
                [] pc[t] = "add_backoff" -> "add",
              [loc[t] EXCEPT !.attempt = @ + 1], calls[t])

\* RateLimiter.acquire, lines 38-41, at the head of a call of the destination
\* connector: youtube_limiter holds max_calls records and the thread sleeps.
\* The job has then called acquire() max_calls times before; whether those
\* calls fall into one window depends on their times, which the job model
\* leaves open.  (spotify_limiter admits 10 calls a second, and a fetch of
\* the playlists of this model makes 4 at most.)
LimiterSleep(t) ==
    /\ pc[t] \in {"create", "search", "add"}
    /\ calls[t].creates + calls[t].searches + calls[t].inserts >= limiter.max_calls
    /\ ~calls[t].limited
    /\ UNCHANGED << migration_status, conn >>
    /\ Thread(t, pc[t], loc[t], [calls[t] EXCEPT !.limited = TRUE])

\* Mutant: the list of the tracks outlives the attempt that filled it.
Locals_kept(l, n) == [l EXCEPT !.target = n, !.offset = 0]

\* _get_spotify_playlist, lines 114-129: target_playlist, tracks = [] and
\* offset = 0
Locals(l, n) == [l EXCEPT !.target = n, !.items = << >>, !.offset = 0]

\* _get_spotify_playlist raises e.  What the attempt had collected is left
\* in loc[t].items; no statement of the code reads it again.
FetchRaise(t, e, c) ==
    Thread(t, "fetch_except",
           [loc[t] EXCEPT !.exc = e, !.offset = 0, !.target = -1],
           [c EXCEPT !.failures = @ + 1, !.dropped = @ + Len(loc[t].items)])

\* The ids of the user's playlists in the order of the listing, up to the
\* one asked for: "gone" is not among them.
UserPlaylists(playlist_id) ==
    [k \in 1..env.ahead |-> "other"]
        \o (IF playlist_id = "gone" THEN << >> ELSE << playlist_id >>)

\* SpotifyConnector.get_current_user_playlists(): the page of lim playlists at
\* offset
get_current_user_playlists(playlists, lim, offset) ==
    IF offset >= Len(playlists) THEN << >>
    ELSE SubSeq(playlists, offset + 1, Min(offset + lim, Len(playlists)))

\* _get_spotify_playlist, lines 113-121: the lookup in the one page that the
\* function asks for
target_playlist(playlist_id) ==
    LET items == get_current_user_playlists(UserPlaylists(playlist_id), listing_limit, 0)
    IN  {k \in 1..Len(items) : items[k] = playlist_id}

\* _get_spotify_playlist, lines 109-129: the listing and the lookup
FetchListing(t) ==
    /\ pc[t] = "fetch_list"
    /\ UNCHANGED migration_status
    /\ \E r \in SourceCalls :
          LET c == Charge(Acquired([calls[t] EXCEPT !.attempts = @ + 1,
                                                    !.offsets = << >>,
                                                    !.source_calls = @ + 1],
                                   "spotify"),
                          r)
          IN  /\ conn' = [conn EXCEPT !.spotify = r.conn]
              /\ IF r.exc # NoExc
                 THEN FetchRaise(t, r.exc, c)
                 ELSE IF target_playlist(loc[t].playlist_id) = {}
                 THEN FetchRaise(t, Exc("ValueError",
                                        "Playlist with ID " \o loc[t].playlist_id
                                            \o " not found",
                                        {}),
                                 c)
                 ELSE Thread(t, "fetch_page",
                             Locals(loc[t], SourceSize(loc[t].playlist_id)), c)

\* Mutant: the loop also stops on a full page.
LastPage_leq(page) == Len(page) <= limit

\* _get_spotify_playlist, line 142: the page ends the pagination
LastPage(page) == Len(page) < limit

\* _get_spotify_playlist, lines 131-151: one round of the page loop
FetchPage(t) ==
    /\ pc[t] = "fetch_page"
    /\ UNCHANGED migration_status
    /\ \E r \in SourceCalls :
          LET page == Page(loc[t].target, limit, loc[t].offset)
              items == loc[t].items \o page
              c == Charge(Acquired([calls[t] EXCEPT
                                        !.offsets = Append(@, loc[t].offset),
                                        !.source_calls = @ + 1],
                                   "spotify"),
                          r)
          IN  /\ conn' = [conn EXCEPT !.spotify = r.conn]
              /\ IF r.exc # NoExc
                 THEN FetchRaise(t, r.exc, [c EXCEPT !.offsets = calls[t].offsets])
                 ELSE IF LastPage(page)
                 THEN Thread(t, "cb_progress",
                             Callback([loc[t] EXCEPT !.items = << >>, !.offset = 0,
                                                     !.data = << items >>],
                                      Frac(1, 1), "Converting playlist format...",
                                      "convert"),
                             c)
                 ELSE Thread(t, "fetch_page",
                             [loc[t] EXCEPT !.items = items, !.offset = @ + limit], c)

\* retry_with_backoff around _get_spotify_playlist, under handle_api_errors
FetchRetry(t) ==
    /\ pc[t] = "fetch_except"
    /\ UNCHANGED << migration_status, conn >>
    /\ IF Retry(loc[t].attempt)
       THEN Backoff(t, "fetch_backoff")
       ELSE Thread(t, "rm_except",
                   [loc[t] EXCEPT !.attempt = 0, !.exc = handle_api_errors(@)], calls[t])

\* Mutant: the conversion hands the tracks over last first.
spotify_tracks_to_common_reversed(items) ==
    LET kept == SelectSeq(items, Kept)
    IN  [j \in 1..Len(kept) |-> TrackOf(kept[Len(kept) + 1 - j])]

\* DataConverter._spotify_tracks_to_common: the Tracks of the items that are
\* not skipped, in the order of the items
spotify_tracks_to_common(items) ==
    LET kept == SelectSeq(items, Kept)
    IN  [j \in 1..Len(kept) |-> TrackOf(kept[j])]

\* migrate_playlist, lines 68-78
Convert(t) ==
    /\ pc[t] = "convert"
    /\ UNCHANGED << migration_status, conn >>
    /\ Thread(t, "cb_progress",
              Callback([loc[t] EXCEPT
                           !.tracks = spotify_tracks_to_common(loc[t].data[1]),
                           !.attempt = 0],
                       Frac(2, 1), "Creating playlist on YouTube Music...", "create"),
              calls[t])

\* _create_youtube_playlist, lines 169-194: one attempt
CreatePlaylist(t) ==
    /\ pc[t] = "create"
    /\ UNCHANGED migration_status
    /\ \E r \in DestCalls :
          LET c == Charge(Acquired([calls[t] EXCEPT !.creates = @ + 1,
                                                    !.attempts = @ + 1],
                                   "youtube"),
                          r)
              f == [c EXCEPT !.failures = @ + 1]
          IN  /\ conn' = [conn EXCEPT !.youtube = r.conn]
              /\ IF r.exc # NoExc
                 THEN Thread(t, "create_except",
                             [loc[t] EXCEPT !.exc = CreateExcept(r.exc)], f)
                 ELSE \/ Thread(t, "create_except",
                                [loc[t] EXCEPT !.exc =
                                    CreateExcept(Exc("ValueError",
                                                     "Failed to create YouTube Music playlist",
                                                     {}))],
                                f)
                      \/ Thread(t, "cb_progress",
                                Callback([loc[t] EXCEPT !.ytid = YtId(t), !.attempt = 0,
                                                        !.i = 0, !.migrated = 0,
                                                        !.failed = 0],
                                         Frac(3, 1), MigratingMsg(Len(loc[t].tracks)),
                                         "loop_head"),
                                c)

\* retry_with_backoff around _create_youtube_playlist, under handle_api_errors
CreateRetry(t) ==
    /\ pc[t] = "create_except"
    /\ UNCHANGED << migration_status, conn >>
    /\ IF Retry(loc[t].attempt)
       THEN Backoff(t, "create_backoff")
       ELSE Thread(t, "rm_except",
                   [loc[t] EXCEPT !.attempt = 0, !.exc = handle_api_errors(@)], calls[t])

(***************************************************************************)
(* _migrate_tracks.  loc[t].i is the index of the track at hand.           *)
(***************************************************************************)
\* Mutant: the report of a track leaves out the three steps before the loop.
Tally_unbased(l) ==
    Callback(l, Frac(l.i + 1, Len(l.tracks)),
             TallyMsg(l.migrated, Len(l.tracks), l.failed), "track_sleep")

\* lines 262-269: the progress report that ends a round of the loop
Tally(l) ==
    Callback(l, Frac(3 * Len(l.tracks) + l.i + 1, Len(l.tracks)),
             TallyMsg(l.migrated, Len(l.tracks), l.failed), "track_sleep")

\* the for statement, line 216, and migrate_playlist's lines 88-90 after it
LoopHead(t) ==
    /\ pc[t] = "loop_head"
    /\ UNCHANGED << migration_status, conn >>
    /\ IF loc[t].i < Len(loc[t].tracks)
       THEN Thread(t, "search", loc[t], calls[t])
       ELSE Thread(t, "cb_progress",
                   Callback(loc[t], Frac(4, 1), "Migration completed!", "rm_success"),
                   calls[t])

\* Mutant: a track without a match is skipped without being counted.
NoMatch_uncounted(t, c) ==
    Thread(t, "loop_head", [loc[t] EXCEPT !.i = @ + 1], c)

\* lines 231-234 and 238-241: failed_tracks += 1; continue
NoMatch(t, c) ==
    Thread(t, "loop_head", [loc[t] EXCEPT !.failed = @ + 1, !.i = @ + 1], c)

\* Mutant: a track that raised is reported but not counted.
TrackError_uncounted(t, e, c) ==
    Thread(t, "cb_progress", Tally([loc[t] EXCEPT !.attempt = 0, !.exc = NoExc]), c)

\* Mutant: only ValueError and KeyError are caught; the rest leaves the loop.
TrackError_propagates(t, e, c) ==
    IF e.cls \in {"ValueError", "KeyError"}
    THEN Thread(t, "cb_progress", Tally([loc[t] EXCEPT !.failed = @ + 1, !.attempt = 0, !.exc = NoExc]), c)
    ELSE Thread(t, "rm_except", [loc[t] EXCEPT !.exc = e, !.attempt = 0], c)

\* lines 251-269: the except clauses of the track's try block, then the report
TrackError(t, e, c) ==
    Thread(t, "cb_progress", Tally([loc[t] EXCEPT !.failed = @ + 1, !.attempt = 0, !.exc = NoExc]), c)

\* An item of a search response; videoId = item["id"]["videoId"], None when
\* the item has no "id" or the "id" has no "videoId".
Item(videoId) == [videoId |-> videoId]

\* YouTubeMusicConnector.search_video(query, n): response.get("items", []),
\* at most n items
SearchResults(n) ==
    UNION { [1..k -> {Item(None), Item("v1")}] : k \in 0..n }

\* Mutant: the identifier of the first result is not looked at.
video_id_unchecked(search_results) ==
    IF search_results = << >> THEN None ELSE "v1"

\* lines 231-241: the video identifier of the first result; None when the
\* list is empty or the first result carries none
video_id(search_results) ==
    IF search_results = << >> THEN None ELSE search_results[1].videoId

\* lines 217-241: the search for the track at hand
SearchVideo(t) ==
    /\ pc[t] = "search"
    /\ UNCHANGED migration_status
    /\ \E r \in DestCalls :
          LET c == Charge(Acquired([calls[t] EXCEPT
                                        !.searches = @ + 1,
                                        !.searched = Append(@, loc[t].tracks[loc[t].i + 1]),
                                        !.results = << >>],
                                   "youtube"),
                          r)
          IN  /\ conn' = [conn EXCEPT !.youtube = r.conn]
              /\ IF r.exc # NoExc
                 THEN TrackError(t, r.exc, [c EXCEPT !.raised = @ + 1])
                 ELSE \E search_results \in SearchResults(max_results) :
                         IF video_id(search_results) = None
                         THEN NoMatch(t, [c EXCEPT !.nomatch = @ + 1,
                                                   !.results = search_results])
                         ELSE Thread(t, "add", [loc[t] EXCEPT !.attempt = 0],
                                     [c EXCEPT !.results = search_results])

\* _add_video_to_playlist_with_retry, one attempt; lines 248-249 and 262-269
\* of _migrate_tracks when it succeeds
AddVideo(t) ==
    /\ pc[t] = "add"
    /\ UNCHANGED migration_status
    /\ \E r \in DestCalls :
          LET c == Charge(Acquired([calls[t] EXCEPT !.inserts = @ + 1,
                                                    !.attempts = @ + 1],
                                   "youtube"),
                          r)
          IN  /\ conn' = [conn EXCEPT !.youtube = r.conn]
              /\ IF r.exc # NoExc
                 THEN Thread(t, "add_except", [loc[t] EXCEPT !.exc = r.exc],
                             [c EXCEPT !.failures = @ + 1])
                 ELSE Thread(t, "cb_progress",
                             Tally([loc[t] EXCEPT !.migrated = @ + 1, !.attempt = 0]),
                             [c EXCEPT !.inserted = @ + 1,
                                       !.added = Append(@, loc[t].tracks[loc[t].i + 1])])

\* retry_with_backoff around _add_video_to_playlist_with_retry, under
\* handle_api_errors; the exception it gives up with reaches _migrate_tracks
AddRetry(t) ==
    /\ pc[t] = "add_except"
    /\ UNCHANGED << migration_status, conn >>
    /\ IF Retry(loc[t].attempt)
       THEN Backoff(t, "add_backoff")
       ELSE TrackError(t, handle_api_errors(loc[t].exc),
                       [calls[t] EXCEPT !.lost = @ + 1])

\* line 272: time.sleep(self.request_delay), then the next track
TrackSleep(t) ==
    /\ pc[t] = "track_sleep"
    /\ UNCHANGED << migration_status, conn >>
    /\ Thread(t, "loop_head", [loc[t] EXCEPT !.i = @ + 1],
              [calls[t] EXCEPT !.pauses = @ + 1])

(***************************************************************************)
(* The specification.                                                      *)
(***************************************************************************)
\* app.py, get_spotify_connector: the connector, if it holds an access token
get_spotify_connector(c) == c.access_token # None

\* app.py, get_youtube_connector: the connector, if it holds an access token
\* and says that it is authenticated
get_youtube_connector(c) == c.access_token # None /\ is_authenticated(c)

Request ==
    \/ \E r \in env.requests :
          start_migration(r.playlist_id, r.authenticated /\ conn.session,
                          r.spotify_conn /\ get_spotify_connector(conn.spotify),
                          r.youtube_conn /\ get_youtube_connector(conn.youtube))
    \/ get_migration_status

JobStep(t) ==
    \/ run_migration(t)
    \/ cb_progress(t)
    \/ cb_description(t)
    \/ FetchListing(t)
    \/ FetchPage(t)
    \/ FetchRetry(t)
    \/ Convert(t)
    \/ CreatePlaylist(t)
    \/ CreateRetry(t)
    \/ LoopHead(t)
    \/ SearchVideo(t)
    \/ AddVideo(t)
    \/ AddRetry(t)
    \/ TrackSleep(t)
    \/ BackoffOver(t)
    \/ LimiterSleep(t)
    \/ rm_running(t)
    \/ rm_result(t)
    \/ rm_description(t)
    \/ rm_except(t)
    \/ rm_error(t)
    \/ rm_failed(t)

Next == Request \/ \E t \in Jobs : JobStep(t)

Spec == Init /\ [][Next]_vars

SpecEngine == InitEngine /\ [][Next]_vars

\* The job threads are scheduled by the operating system and every call they
\* make returns or raises: a thread that can take a step takes one.
Fairness == \A t \in Jobs : WF_vars(JobStep(t))

SpecLive == InitEngine /\ [][Next]_vars /\ Fairness

SpecLiveJobs == Init /\ [][Next]_vars /\ Fairness

(***************************************************************************)
(* The conversion alone: job 1 stands before the conversion of a list of   *)
(* up to MaxConvert items of every kind that a page can hold.              *)
(***************************************************************************)
\* Item k as a track, an episode, an item whose track is null, a bare track
\* object and a bare object of another type, with a timestamp that parses,
\* one that does not, and none.
ItemKinds == {"track", "episode", "null", "bare track", "bare episode"}

ItemAt(k, kind, added_at) ==
    CASE kind = "track" -> PlaylistItem(<< TrackObject(k, "track") >>, 0, None, added_at)
      [] kind = "episode" -> PlaylistItem(<< TrackObject(k, "episode") >>, 0, None, added_at)
      [] kind = "null" -> PlaylistItem(<< >>, 0, None, added_at)
      [] kind = "bare track" -> PlaylistItem(<< >>, k, "track", added_at)
      [] kind = "bare episode" -> PlaylistItem(<< >>, k, "episode", added_at)

InitConvert ==
    /\ migration_status =
          Status(TRUE, Frac(100, 4), "Converting playlist format...", None, None)
    /\ nStarted = 1
    /\ pc = [t \in Jobs |-> IF t = 1 THEN "convert" ELSE "idle"]
    /\ \E n \in 0..MaxConvert :
          \E kinds \in [1..n -> ItemKinds \X {AddedAt, "yesterday", None}] :
             loc = [t \in Jobs |->
                       IF t = 1
                       THEN Callback([InitLoc EXCEPT
                                         !.playlist_id = PlaylistId(n),
                                         !.target = n,
                                         !.data = << [k \in 1..n |->
                                                        ItemAt(k, kinds[k][1], kinds[k][2])] >>],
                                     Frac(1, 1), "Converting playlist format...",
                                     "convert")
                       ELSE InitLoc]
    /\ calls = [t \in Jobs |-> InitCalls]
    /\ response = NoResponse
    /\ env = Env(1, {}, {}, {}, {})
    /\ limiter = RateLimiter(5, 1)
    /\ conn = Connectors(Tokens("at1", "rt1"), Tokens("at1", "rt1"))

NextConvert == \E t \in Jobs : Convert(t)

SpecConvert == InitConvert /\ [][NextConvert]_vars

(***************************************************************************)
(* One job on a one-track playlist, in a process that also serves          *)
(* POST /api/auth/youtube/refresh.                                         *)
(***************************************************************************)
\* refresh_youtube_auth, app.py lines 330-372.  The handler works on the
\* object bound to YOUTUBE_CONNECTOR, the one a running job was given.
refresh_youtube_auth ==
    /\ UNCHANGED << migration_status, nStarted, pc, loc, calls, env, limiter >>
    /\ IF ~conn.session
       THEN /\ response' = Response(400,
                                    "No YouTube authentication found. Please re-authenticate.",
                                    << >>)
            /\ conn' = conn
       ELSE \E resp \in TokenResponses :
               LET o == youtube_refresh_access_token(conn.youtube, resp)
               IN  /\ conn' = [conn EXCEPT !.youtube = o.conn,
                                           !.session = (o.exc = NoExc)]
                   /\ response' =
                         IF o.exc = NoExc
                         THEN Response(200, "YouTube authentication refreshed successfully",
                                       << >>)
                         ELSE Response(400, o.exc.msg, << >>)

InitShared ==
    /\ Idle
    /\ env = Env(1, GoodRequests({PlaylistId(1)}), {SourceTimeout}, {DestHttpError}, {})

NextShared == Next \/ refresh_youtube_auth

SpecShared == InitShared /\ [][NextShared]_vars

(***************************************************************************)
(* The fetch step alone, on playlists of up to MaxItems items: job 1 has   *)
(* been accepted and stands at the call of _get_spotify_playlist.          *)
(***************************************************************************)
InitFetch ==
    /\ migration_status =
          Status(TRUE, Frac(0, 1), "Getting Spotify playlist information...", None, None)
    /\ nStarted = 1
    /\ pc = [t \in Jobs |-> IF t = 1 THEN "fetch_list" ELSE "idle"]
    /\ \E id \in {"gone"} \cup {PlaylistId(n) : n \in 0..MaxItems} :
          loc = [t \in Jobs |->
                    IF t = 1
                    THEN Callback([InitLoc EXCEPT !.playlist_id = id], Frac(0, 1),
                                  "Getting Spotify playlist information...", "fetch_list")
                    ELSE InitLoc]
    /\ calls = [t \in Jobs |-> InitCalls]
    /\ response = NoResponse
    /\ env = Env(1, {}, {SourceTimeout, SourceNoRefresh}, {DestHttpError, DestExpired}, {})
    /\ limiter = RateLimiter(5, 1)
    /\ conn = Connectors(Tokens("at1", "rt1"), Tokens("at1", "rt1"))

NextFetch ==
    \E t \in Jobs : FetchListing(t) \/ FetchPage(t) \/ FetchRetry(t) \/ BackoffOver(t)

SpecFetch == InitFetch /\ [][NextFetch]_vars

(***************************************************************************)
(* The fetch step of a user whose listing holds up to MaxAhead playlists   *)
(* ahead of the one asked for.                                             *)
(***************************************************************************)
InitListing ==
    /\ migration_status =
          Status(TRUE, Frac(0, 1), "Getting Spotify playlist information...", None, None)
    /\ nStarted = 1
    /\ pc = [t \in Jobs |-> IF t = 1 THEN "fetch_list" ELSE "idle"]
    /\ \E id \in {"gone", PlaylistId(1)} :
          loc = [t \in Jobs |->
                    IF t = 1
                    THEN Callback([InitLoc EXCEPT !.playlist_id = id], Frac(0, 1),
                                  "Getting Spotify playlist information...", "fetch_list")
                    ELSE InitLoc]
    /\ calls = [t \in Jobs |-> InitCalls]
    /\ response = NoResponse
    /\ \E ahead \in 0..MaxAhead :
          env = [Env(1, {}, {SourceTimeout}, {}, {}) EXCEPT !.ahead = ahead]
    /\ limiter = RateLimiter(5, 1)
    /\ conn = Connectors(Tokens("at1", "rt1"), Tokens("at1", "rt1"))

SpecListing == InitListing /\ [][NextFetch]_vars

(***************************************************************************)
(* One call through retry_with_backoff, decorated with every policy within *)
(* the bounds: job 1 has converted a playlist of one track and stands at   *)
(* the call of _create_youtube_playlist.                                   *)
(***************************************************************************)
InitRetry ==
    /\ migration_status =
          Status(TRUE, Percent(Frac(2, 1), total_steps),
                 "Creating playlist on YouTube Music...", None, None)
    /\ nStarted = 1
    /\ pc = [t \in Jobs |-> IF t = 1 THEN "create" ELSE "idle"]
    /\ loc = [t \in Jobs |->
                 IF t = 1
                 THEN Callback([InitLoc EXCEPT !.playlist_id = PlaylistId(1), !.target = 1,
                                               !.data = << SourceItems(1) >>,
                                               !.tracks =
                                                   spotify_tracks_to_common(SourceItems(1))],
                               Frac(2, 1), "Creating playlist on YouTube Music...", "create")
                 ELSE InitLoc]
    /\ calls = [t \in Jobs |-> InitCalls]
    /\ response = NoResponse
    /\ \E retries \in 0..MaxRetries, base \in 1..MaxBase, cap \in 1..MaxCap :
          env = [Env(1, {}, {}, {DestHttpError, DestExpired}, {})
                    EXCEPT !.policy = Policy(retries, base, cap)]
    /\ limiter = RateLimiter(5, 1)
    /\ conn = Connectors(Tokens("at1", "rt1"), Tokens("at1", "rt1"))

NextRetry == \E t \in Jobs : CreatePlaylist(t) \/ CreateRetry(t) \/ BackoffOver(t)

SpecRetry == InitRetry /\ [][NextRetry]_vars

(***************************************************************************)
(* One job whose requests may meet a 401, with connectors that hold an     *)
(* access token and, possibly, a refresh token.                            *)
(***************************************************************************)
AuthAnswers ==
    { Answer(refresh, second) :
        refresh \in { TokenResponse(200, TokenInfo("at2", None)),
                      TokenResponse(400, TokenInfo(None, None)) },
        second \in {200, 401} }

InitAuth ==
    /\ migration_status = Status(FALSE, Frac(0, 1), "", None, None)
    /\ nStarted = 0
    /\ pc = [t \in Jobs |-> "idle"]
    /\ loc = [t \in Jobs |-> InitLoc]
    /\ calls = [t \in Jobs |-> InitCalls]
    /\ response = NoResponse
    /\ limiter = RateLimiter(5, 1)
    /\ env = Env(1, BadRequests \cup GoodRequests({PlaylistId(1)}), {}, {}, AuthAnswers)
    /\ \E spotify_refresh_token, youtube_refresh_token \in {None, "rt1"} :
          conn = Connectors(Tokens("at1", spotify_refresh_token),
                            Tokens("at1", youtube_refresh_token))

SpecAuth == InitAuth /\ [][Next]_vars

(***************************************************************************)
(* RateLimiter (error_handling.py) with one caller.  Time is counted in    *)
(* ticks.  The statements of acquire() take no time; time passes between   *)
(* calls and while acquire() sleeps, and a sleep lasts at least as long as *)
(* asked.                                                                  *)
(***************************************************************************)
\* acquire(), line 31-35: self.calls without the records that have expired
Retained(l, now) == SelectSeq(l.calls, LAMBDA call_time : now - call_time < l.time_window)

\* acquire(), lines 31-41: read the clock, prune, and work out the wait
acquire(l) ==
    LET now == l.clock
        kept == Retained(l, now)
        full == Len(kept) >= l.max_calls
        sleep_time == IF full THEN l.time_window - (now - kept[1]) ELSE l.sleep_time
    IN  [l EXCEPT !.calls = kept, !.now = now, !.at = "in",
                  !.sleep_time = sleep_time,
                  !.wake = IF full /\ sleep_time > 0 THEN now + sleep_time ELSE now,
                  !.invoked = Append(@, now)]

\* acquire(), line 44, and the return: self.calls.append(now)
acquire_return(l) ==
    [l EXCEPT !.calls = Append(@, l.now), !.at = "out",
              !.returned = Append(@, l.clock)]

Acquire ==
    /\ limiter.at = "out"
    /\ Len(limiter.invoked) < MaxAcquires
    /\ limiter' = acquire(limiter)
    /\ UNCHANGED << migration_status, nStarted, pc, loc, calls, response, env, conn >>

AcquireReturn ==
    /\ limiter.at = "in"
    /\ limiter.clock >= limiter.wake
    /\ limiter' = acquire_return(limiter)
    /\ UNCHANGED << migration_status, nStarted, pc, loc, calls, response, env, conn >>

Tick ==
    /\ limiter.clock < MaxTime
    /\ limiter.at = "in" => limiter.wake > limiter.now
    /\ limiter' = [limiter EXCEPT !.clock = @ + 1]
    /\ UNCHANGED << migration_status, nStarted, pc, loc, calls, response, env, conn >>

InitLimiter ==
    /\ migration_status = Status(FALSE, Frac(0, 1), "", None, None)
    /\ nStarted = 0
    /\ pc = [t \in Jobs |-> "idle"]
    /\ loc = [t \in Jobs |-> InitLoc]
    /\ calls = [t \in Jobs |-> InitCalls]
    /\ response = NoResponse
    /\ env = Env(0, {}, {}, {}, {})
    /\ \E max_calls \in 1..MaxCalls, time_window \in 1..MaxWindow :
          limiter = RateLimiter(max_calls, time_window)
    /\ conn = Connectors(Tokens("at1", "rt1"), Tokens("at1", "rt1"))

NextLimiter == Acquire \/ AcquireReturn \/ Tick

SpecLimiter == InitLimiter /\ [][NextLimiter]_vars

(***************************************************************************)
(* The connectors' token handling alone: token responses are applied to    *)
(* connectors that start without tokens.                                   *)
(***************************************************************************)
\* conn once the method op of a connector has applied token_info and left c
Apply(connector, op, c, token_info) ==
    [conn EXCEPT ![connector] = c,
                 !.last = Applied(connector, op, token_info, conn[connector].refresh_token),
                 !.refused = NotRefused]

SpotifyExchange ==
    /\ \E i \in TokenInfos :
          conn' = Apply("spotify", "exchange",
                        spotify_exchange_code_for_token(conn.spotify, i), i)
    /\ UNCHANGED << migration_status, nStarted, pc, loc, calls, response, env, limiter >>

SpotifyRefresh ==
    \E resp \in TokenResponses :
        LET o == spotify_refresh_access_token(conn.spotify, resp)
        IN  /\ o.exc = NoExc
            /\ conn' = Apply("spotify", "refresh", o.conn, resp.token_info)
            /\ UNCHANGED << migration_status, nStarted, pc, loc, calls, response, env,
                            limiter >>

YoutubeExchange ==
    /\ \E i \in TokenInfos :
          conn' = Apply("youtube", "exchange",
                        youtube_exchange_code_for_token(conn.youtube, i), i)
    /\ UNCHANGED << migration_status, nStarted, pc, loc, calls, response, env, limiter >>

YoutubeRefresh ==
    \E resp \in TokenResponses :
        LET o == youtube_refresh_access_token(conn.youtube, resp)
        IN  /\ o.exc = NoExc
            /\ conn' = Apply("youtube", "refresh", o.conn, resp.token_info)
            /\ UNCHANGED << migration_status, nStarted, pc, loc, calls, response, env,
                            limiter >>

\* A refresh that the token endpoint rejects: the method raises
YoutubeRefreshRejected ==
    \E resp \in TokenResponses :
        LET o == youtube_refresh_access_token(conn.youtube, resp)
        IN  /\ o.exc # NoExc
            /\ conn' = [conn EXCEPT !.youtube = o.conn,
                                    !.refused = Refused(resp.status, o.exc,
                                                        conn.youtube.refresh_token)]
            /\ UNCHANGED << migration_status, nStarted, pc, loc, calls, response, env,
                            limiter >>

YoutubeApply ==
    /\ \E i \in TokenInfos :
          conn' = Apply("youtube", "apply", apply_token_info(conn.youtube, i), i)
    /\ UNCHANGED << migration_status, nStarted, pc, loc, calls, response, env, limiter >>

InitTokens ==
    /\ migration_status = Status(FALSE, Frac(0, 1), "", None, None)
    /\ nStarted = 0
    /\ pc = [t \in Jobs |-> "idle"]
    /\ loc = [t \in Jobs |-> InitLoc]
    /\ calls = [t \in Jobs |-> InitCalls]
    /\ response = NoResponse
    /\ env = Env(0, {}, {}, {}, {})
    /\ limiter = RateLimiter(5, 1)
    /\ conn = Connectors(Tokens(None, None), Tokens(None, None))

NextTokens ==
    \/ SpotifyExchange
    \/ SpotifyRefresh
    \/ YoutubeExchange
    \/ YoutubeRefresh
    \/ YoutubeRefreshRejected
    \/ YoutubeApply

SpecTokens == InitTokens /\ [][NextTokens]_vars

(***************************************************************************)
(* Properties.                                                             *)
(***************************************************************************)
\* Thread t has been spawned and has not yet left migrate_playlist.
Migrating(t) ==
    pc[t] \notin {"idle", "rm_success", "rm_result", "rm_description",
                  "rm_except", "rm_error", "rm_failed", "done"}

\* Thread t has written running = False and still has status writes to make.
Stale(t) == pc[t] \in {"rm_result", "rm_description", "rm_error", "rm_failed"}

\* Thread t is inside _migrate_tracks.
InTrackLoop(t) ==
    \/ pc[t] \in {"loop_head", "search", "add", "add_except", "add_backoff", "track_sleep"}
    \/ pc[t] \in {"cb_progress", "cb_description"} /\ loc[t].ret = "track_sleep"

\* Thread t makes the last status write of a job that succeeded.
Completes(t) == pc[t] = "rm_description" /\ pc'[t] = "done"

\* C1: under every interleaving of start requests, status polls and job
\* steps, at most one job thread is between its spawn and its return from
\* migrate_playlist, and running is true for as long as one is.
C1_OneMigrationAtATime ==
    /\ Cardinality({t \in Jobs : Migrating(t)}) <= 1
    /\ \A t \in Jobs : Migrating(t) => migration_status.running

\* A start request is rejected while one job migrates and the thread of an
\* earlier job is still alive.
C1_Witness ==
    /\ response.detail = "Migration already in progress"
    /\ \E t, u \in Jobs : Migrating(t) /\ Stale(u)

\* C2: the step that answers a start request with "Migration already in
\* progress" leaves running, progress, description, result and error as they
\* were.
C2_RejectedStartKeepsStatus ==
    [][response'.detail = "Migration already in progress"
          => migration_status' = migration_status]_vars

\* A start request has been rejected while a job that has already reported
\* progress is running.
C2_Witness ==
    /\ response.detail = "Migration already in progress"
    /\ migration_status.running
    /\ migration_status.progress # Frac(0, 1)

\* C3: result and error are never both set.
C3_ResultAndErrorExclusive ==
    ~(migration_status.result # None /\ migration_status.error # None)

\* C4: once a job has been accepted, a status poll that reports
\* running = false reports a result or an error with it.
C4_FinishedHasResultOrError ==
    (response.body # << >> /\ nStarted >= 1 /\ ~response.body[1].running)
        => (response.body[1].result # None \/ response.body[1].error # None)

\* C5: a failure on one track never aborts the job.  Every search that comes
\* back empty or without identifier, every search that raises and every
\* insertion that fails for good adds one to failed_tracks; the exception
\* handler of run_migration is entered only before a destination playlist
\* exists; and when migrate_playlist returns every track has been searched
\* for and counted.
C5_TrackFailureDoesNotAbort ==
    \A t \in Jobs :
        /\ (InTrackLoop(t) \/ pc[t] = "rm_success")
              => loc[t].failed = calls[t].nomatch + calls[t].raised + calls[t].lost
        /\ pc[t] = "rm_except" => loc[t].ytid = None
        /\ pc[t] = "rm_success"
              => /\ calls[t].searches = Len(loc[t].tracks)
                 /\ loc[t].migrated + loc[t].failed = Len(loc[t].tracks)

\* migrate_playlist has returned after a search that raised and an insertion
\* that failed for good.
C5_Witness ==
    \E t \in Jobs :
        pc[t] = "rm_success" /\ calls[t].raised >= 1 /\ calls[t].lost >= 1

\* C6: when every search of a job came back without a match, no insertion
\* request is issued, failed_tracks equals the number of tracks searched for,
\* and migrate_playlist returns the identifier of the created playlist with
\* failed_tracks equal to the number of tracks.
C6_NoMatchAtAll ==
    \A t \in Jobs :
        (calls[t].nomatch = calls[t].searches)
            => /\ pc[t] = "loop_head"
                     => /\ calls[t].inserts = 0
                        /\ loc[t].failed = loc[t].i
               /\ pc[t] = "rm_success"
                     => /\ loc[t].ytid = YtId(t)
                        /\ calls[t].inserts = 0
                        /\ loc[t].failed = Len(loc[t].tracks)

\* migrate_playlist has returned from a playlist of two or more tracks none
\* of which had a match.
C6_Witness ==
    \E t \in Jobs :
        /\ pc[t] = "rm_success"
        /\ Len(loc[t].tracks) >= 2
        /\ calls[t].nomatch = calls[t].searches

\* C7: a job whose fetch and playlist creation succeeded ends with result
\* equal to the identifier that creation returned and with error unset.
C7_EndsWithResult ==
    [][\A t \in Jobs :
          Completes(t) => /\ migration_status'.result = loc[t].ytid
                          /\ migration_status'.error = None]_vars

\* C8: at the head of every round of the track loop, one progress callback
\* has been made for each track dealt with so far.
C8_TallyAfterEveryTrack ==
    \A t \in Jobs : pc[t] = "loop_head" => calls[t].tallies = loc[t].i

\* C9: the final status of a job that completes with k tracks inserted and f
\* failed out of total has a result, no error, and the description
\* "... (k/total successful, f failed)".
C9_FinalDescriptionIsTally ==
    [][\A t \in Jobs :
          Completes(t) =>
              /\ migration_status'.result # None
              /\ migration_status'.error = None
              /\ migration_status'.description =
                    TallyMsg(loc[t].migrated, Len(loc[t].tracks), loc[t].failed)]_vars

\* C10: the fetch step asks for the offsets 0, 100, 200, ... up to the first
\* page shorter than 100 and returns the source items, each once and in
\* source order; while it pages, it holds the items before its offset; when
\* it gives up, the caller holds no playlist data.
C10_FetchReturnsAllItems ==
    \A t \in Jobs :
        /\ loc[t].data # << >>
              => /\ loc[t].data[1] = SourceItems(loc[t].target)
                 /\ calls[t].offsets =
                       [j \in 1..((loc[t].target \div limit) + 1) |-> (j - 1) * limit]
        /\ pc[t] = "fetch_page"
              => loc[t].items = SubSeq(SourceItems(loc[t].target), 1, loc[t].offset)
        /\ pc[t] = "rm_except" => loc[t].data = << >>

\* The fetch has returned 237 items from pages of 100, 100 and 37, after an
\* attempt that failed.
C10_Witness ==
    \E t \in Jobs :
        /\ loc[t].data # << >>
        /\ Len(loc[t].data[1]) = 237
        /\ calls[t].offsets = << 0, 100, 200 >>
        /\ loc[t].attempt >= 1

\* The retry wrapper of thread t returns what the function it wraps returned.
WrapperReturns(t) ==
    pc[t] \in {"fetch_page", "create", "add"} /\ pc'[t] = "cb_progress"

\* The retry wrapper of thread t gives up and raises.
WrapperRaises(t) ==
    pc[t] \in {"fetch_except", "create_except", "add_except"}
        /\ pc'[t] \in {"rm_except", "cb_progress"}

\* C11: a call through retry_with_backoff(max_retries = N) whose function
\* raises f <= N times and then returns has made f + 1 attempts when the
\* wrapper returns, and the wrapper returns the function's value; the wrapper
\* gives up only when the function has raised N + 1 times.
C11_AttemptsAreFailuresPlusOne ==
    [][\A t \in Jobs :
          /\ WrapperReturns(t)
                => /\ calls'[t].failures <= max_retries
                   /\ calls'[t].attempts = calls'[t].failures + 1
                   /\ pc[t] = "create" => loc'[t].ytid = YtId(t)
                   /\ pc[t] = "fetch_page"
                         => loc'[t].data = << SourceItems(loc[t].target) >>
          /\ WrapperRaises(t)
                => /\ calls[t].failures = max_retries + 1
                   /\ calls[t].attempts = max_retries + 1]_vars

\* Playlist creation has returned an identifier on the attempt that followed
\* max_retries failed ones.
C11_Witness ==
    \E t \in Jobs :
        /\ pc[t] = "cb_progress" /\ loc[t].ret = "loop_head"
        /\ loc[t].ytid = YtId(t)
        /\ calls[t].failures = max_retries
        /\ calls[t].attempts = max_retries + 1

\* Thread t makes the last status write of a job that failed.
Fails(t) == pc[t] = "rm_failed" /\ pc'[t] = "done"

\* C12: when migrate_playlist raises, no search and no insertion has been
\* asked of the destination, and no creation either if the fetch is what
\* failed; and the job that failed ends with running = false, error set and
\* result unset.
C12_FatalStepsEndTheJob ==
    [][\A t \in Jobs :
          /\ pc'[t] = "rm_except"
                => /\ calls'[t].searches = 0 /\ calls'[t].inserts = 0
                   /\ loc'[t].data = << >> => calls'[t].creates = 0
          /\ Fails(t)
                => /\ ~migration_status'.running
                   /\ migration_status'.error # None
                   /\ migration_status'.result = None]_vars

\* The calls of acquire() before the k-th that returned less than time_window
\* before the k-th did.
ReturnedInWindow(l, k) == {j \in 1..(k - 1) : l.returned[k] - l.returned[j] < l.time_window}

\* C13: no window of time_window ticks holds more than max_calls returns of
\* acquire(): whenever a call returns, fewer than max_calls earlier calls
\* returned within the time_window before.
C13_SlidingWindow ==
    \A k \in 1..Len(limiter.returned) :
        Cardinality(ReturnedInWindow(limiter, k)) < limiter.max_calls

\* C14: a call of acquire() made at a time t at which max_calls calls have
\* returned returns at t + time_window or later, and no wait that acquire()
\* computes is negative.
C14_FullWindowWaits ==
    /\ \A k \in 1..Len(limiter.returned) :
          Cardinality({j \in 1..(k - 1) : limiter.returned[j] = limiter.invoked[k]})
                >= limiter.max_calls
             => limiter.returned[k] >= limiter.invoked[k] + limiter.time_window
    /\ limiter.sleep_time >= 0

\* C15: after a token response without refresh token has been applied to a
\* connector, by exchange, refresh or apply_token_info, the connector holds
\* the refresh token it held before.
C15_MissingRefreshTokenKeepsHeld ==
    (conn.last.op # "" /\ conn.last.token_info.refresh_token = None)
        => conn[conn.last.connector].refresh_token = conn.last.held

\* C16: after a refresh response with a refresh token has been applied to a
\* connector, the connector holds that refresh token.
C16_NewRefreshTokenReplacesHeld ==
    (conn.last.op = "refresh" /\ conn.last.token_info.refresh_token # None)
        => conn[conn.last.connector].refresh_token = conn.last.token_info.refresh_token

\* The description with which run_migration tells the user to authenticate
\* again.
ReauthDescription ==
    "Migration failed: YouTube authentication has expired. Please re-authenticate with YouTube and try again."

\* C17: the destination connector says it is authenticated only when it
\* holds an access token and a refresh token, and a start request is accepted
\* only when the destination connector holds both.
C17_AcceptedOnlyWithRefreshToken ==
    [][/\ is_authenticated(conn.youtube)
            => conn.youtube.access_token # None /\ conn.youtube.refresh_token # None
       /\ nStarted' # nStarted
            => conn.youtube.access_token # None /\ conn.youtube.refresh_token # None]_vars

\* C18: once a connector call of an engine operation has been answered 401
\* before and after the refresh, no further request and no further refresh is
\* issued for that operation.
C18_SecondDenialIsFinal ==
    [][\A t \in Jobs :
          calls[t].denied >= 1
              => /\ calls'[t].requests <= calls[t].requests
                 /\ calls'[t].refreshes <= calls[t].refreshes]_vars

\* C19: once a call of a job has met a credential that cannot be renewed (no
\* refresh token held, or the refresh rejected with 4xx), the job issues no
\* further request, does not complete, and ends with error set and the
\* description that tells the user to authenticate again.
C19_ExpiredCredentialEndsTheJob ==
    [][\A t \in Jobs :
          calls[t].expired
              => /\ calls'[t].requests <= calls[t].requests
                 /\ ~Completes(t)
                 /\ Fails(t) => /\ migration_status'.error # None
                                /\ migration_status'.description = ReauthDescription]_vars

\* The progress values in sight: the one of migration_status and the one of
\* the status poll just answered.
ProgressValues ==
    {migration_status.progress}
        \cup (IF response.body # << >> THEN {response.body[1].progress} ELSE {})

Asleep(t) ==
    \/ calls[t].limited
    \/ pc[t] \in {"fetch_backoff", "create_backoff", "add_backoff"}
    \/ pc[t] = "track_sleep"

\* C21: a status poll can be served in every state, whatever the job threads
\* are doing or waiting for, and the answer it gives is the status as it is
\* at that moment.
C21_PollNeverWaits ==
    /\ ENABLED get_migration_status
    /\ response.body # << >> => response.body = << migration_status >>

\* A status poll has been answered with running = true while the job thread
\* sleeps in the rate limiter: the search for the third track is the sixth
\* call of the job.
C21_Witness ==
    /\ response.body # << >>
    /\ response.body[1].running
    /\ \E t \in Jobs :
          /\ calls[t].limited /\ pc[t] = "search" /\ loc[t].i = 2
          /\ calls[t].creates = 1 /\ calls[t].searches = 2 /\ calls[t].inserts = 2
\* C22: every job that is accepted ends: a thread that has been spawned
\* reaches the end of run_migration, and whenever running is true it is
\* false again later.
C22_EveryJobEnds ==
    /\ \A t \in Jobs : (pc[t] # "idle") ~> (pc[t] = "done")
    /\ migration_status.running ~> ~migration_status.running

\* A job has ended after a backoff, a wait in the rate limiter and a pause
\* between two tracks, and running is false.
C22_Witness ==
    \E t \in Jobs :
        /\ pc[t] = "done"
        /\ ~migration_status.running
        /\ migration_status.result = YtId(t)
        /\ migration_status.description = "Migration completed!"
\* The tracks of the source playlist with n items, in source order.
SourceTracks(n) ==
    LET ids == SelectSeq([k \in 1..n |-> k], LAMBDA k : IsTrack(n, k))
    IN  [j \in 1..Len(ids) |-> Track(ids[j], fromisoformat(AddedAt))]

\* C23: the tracks are searched for in source order, one after the other;
\* the only track that has been searched for and is not yet finished is the
\* one at hand, and every insertion request is for it; the tracks inserted
\* so far are among those searched for and stand in source order.
C23_TracksInSourceOrder ==
    \A t \in Jobs :
        (InTrackLoop(t) \/ pc[t] = "rm_success")
            => LET searched == calls[t].searched
                   added == calls[t].added
               IN  /\ searched = SubSeq(SourceTracks(loc[t].target), 1, Len(searched))
                   /\ Len(searched) \in {loc[t].i, loc[t].i + 1}
                   /\ pc[t] \in {"search", "loop_head"} => Len(searched) = loc[t].i
                   /\ pc[t] \in {"add", "add_except", "add_backoff"}
                         => Len(searched) = loc[t].i + 1
                   /\ \A a \in 1..Len(added) :
                         /\ \E j \in 1..Len(searched) : searched[j] = added[a]
                         /\ \A b \in 1..Len(added) : a < b => added[a].id < added[b].id

\* The first and the last item of the long playlist have been inserted, in
\* that order, the second after an insertion request that failed.
C23_Witness ==
    \E t \in Jobs :
        /\ pc[t] = "rm_success"
        /\ calls[t].added = << SourceTracks(BigPlaylist)[1], SourceTracks(BigPlaylist)[2] >>
        /\ calls[t].added[2].id = BigPlaylist
        /\ calls[t].inserts > calls[t].inserted
\* C24: whenever running is true, result and error are both unset.
C24_RunningHasNoOutcome ==
    migration_status.running
        => migration_status.result = None /\ migration_status.error = None

\* C25: a status poll never returns an update half applied: when a thread
\* stands between the two writes of a progress callback, the description
\* returned is the one of that callback; when it stands between the writes
\* of run_migration's last lines, the poll already shows the result, the
\* error and the final description that belong to running = false.
C25_PollsAreSnapshots ==
    response.body # << >>
        => \A t \in Jobs :
              /\ pc[t] = "cb_description"
                    => response.body[1].description = loc[t].cb_desc
              /\ pc[t] = "rm_result" => response.body[1].result = loc[t].ytid
              /\ pc[t] = "rm_description"
                    => response.body[1].description = "Migration completed!"
              /\ pc[t] = "rm_error" => response.body[1].error = loc[t].exc.msg
              /\ pc[t] = "rm_failed"
                    => response.body[1].description # loc[t].cb_desc

\* The searches issued so far for the track that thread t has at hand.
SearchesOfTrack(t) ==
    {j \in 1..Len(calls'[t].searched) :
        calls'[t].searched[j] = loc[t].tracks[loc[t].i + 1]}

\* C26: the engine gives up a step because a connector call raised only
\* when that call has been attempted max_retries + 1 times: a retry wrapper
\* raises after max_retries + 1 attempts, and a track is counted as failed
\* for a search that raised only after max_retries + 1 searches for it.
C26_EveryCallIsRetried ==
    [][\A t \in Jobs :
          /\ WrapperRaises(t) => calls[t].attempts = max_retries + 1
          /\ (pc[t] = "search" /\ calls'[t].raised > calls[t].raised)
                => Cardinality(SearchesOfTrack(t)) = max_retries + 1]_vars
\* C27: a call through retry_with_backoff(max_retries = N, base_delay = b,
\* max_delay = m) makes at most N + 1 attempts; the k-th wait (k = 0..N-1),
\* which follows the failure of attempt k, is min(b * 2^k, m); every failure
\* but the (N+1)-th is followed by a wait, and the (N+1)-th is propagated
\* without one.
C27_BackoffSchedule ==
    \A t \in Jobs :
        LET N == env.policy.max_retries
            b == env.policy.base_delay
            m == env.policy.max_delay
            delays == calls[t].delays
        IN  /\ calls[t].attempts <= N + 1
            /\ \A k \in 0..(Len(delays) - 1) :
                  delays[k + 1] = IF b * 2 ^ k <= m THEN b * 2 ^ k ELSE m
            /\ pc[t] \in {"create", "create_backoff"} => Len(delays) = calls[t].failures
            /\ pc[t] = "create_except" => Len(delays) = calls[t].failures - 1
            /\ pc[t] = "rm_except"
                  => /\ calls[t].failures = N + 1
                     /\ calls[t].attempts = N + 1
                     /\ Len(delays) = N
                     /\ loc[t].exc # NoExc

\* The wrapper with max_retries = 3, base_delay = 2 and max_delay = 5 has
\* given up after waits of 2, 4 and 5 seconds.
C27_Witness ==
    \E t \in Jobs :
        /\ pc[t] = "rm_except"
        /\ env.policy = Policy(3, 2, 5)
        /\ calls[t].delays = << 2, 4, 5 >>

\* C28: when the listing does not hold the requested playlist, the fetch
\* step gives up at once: the ValueError of line 124 is followed by no
\* backoff and no further attempt.
C28_NotFoundIsNotRetried ==
    [][\A t \in Jobs :
          (pc[t] = "fetch_except"
             /\ loc[t].exc.msg = "Playlist with ID " \o loc[t].playlist_id \o " not found")
              => pc'[t] = "rm_except"]_vars
\* C29: when a refresh of the destination connector that held a refresh
\* token has been answered with a 4xx status, the connector holds no refresh
\* token, the refresh has raised the re-authentication error, and any further
\* refresh raises for want of a refresh token; when the refresh has failed
\* with 5xx or without an answer, the connector holds the refresh token it
\* held and the error raised is not a re-authentication error.
C29_RefusedRefresh ==
    LET r == conn.refused
    IN  (r.exc # NoExc /\ r.held # None)
            => IF r.status >= 400 /\ r.status < 500
               THEN /\ conn.youtube.refresh_token = None
                    /\ r.exc.cls = "ValueError"
                    /\ "YouTube authentication has expired" \in r.exc.tags
                    /\ \A resp \in TokenResponses :
                          LET o == youtube_refresh_access_token(conn.youtube, resp)
                          IN  /\ "No refresh token available" \in o.exc.tags
                              /\ o.conn = conn.youtube
               ELSE /\ conn.youtube.refresh_token = r.held
                    /\ r.exc.cls = "RequestException"
                    /\ "YouTube authentication has expired" \notin r.exc.tags
                    /\ "No refresh token available" \notin r.exc.tags

\* The token endpoint has answered 400 to the refresh of a destination
\* connector that held the refresh token "rt2".
C29_Witness ==
    /\ conn.refused.status = 400
    /\ conn.refused.held = "rt2"
    /\ conn.youtube.refresh_token = None
\* C30: whenever the track loop turns to the next track or ends, the engine
\* has paused once after each track it has dealt with.
C30_PauseAfterEveryTrack ==
    \A t \in Jobs : pc[t] = "loop_head" => calls[t].pauses = loc[t].i

(***************************************************************************)
(* C31.  The values handed to the progress callback.                       *)
(***************************************************************************)
\* The thread calls the progress callback in this step
Reports(t) == pc[t] # "cb_progress" /\ pc'[t] = "cb_progress"

\* The step value of the four-phase scale at the place the job goes on at
\* after the report
Scale(l) ==
    CASE l.ret = "fetch_list" -> Frac(0, 1)
      [] l.ret = "convert" -> Frac(1, 1)
      [] l.ret = "create" -> Frac(2, 1)
      [] l.ret = "loop_head" -> Frac(3, 1)
      [] l.ret = "track_sleep" -> Frac(3 * Len(l.tracks) + l.i + 1, Len(l.tracks))
      [] l.ret = "rm_success" -> Frac(4, 1)

\* The reports that may follow the report that went on at ret
AfterReport(ret) ==
    CASE ret = "fetch_list" -> {"convert"}
      [] ret = "convert" -> {"create"}
      [] ret = "create" -> {"loop_head"}
      [] ret \in {"loop_head", "track_sleep"} -> {"track_sleep", "rm_success"}
      [] OTHER -> {}

\* C31: every (step, total) handed to the progress callback follows the
\* four-phase scale in order: 0 before the fetch, 1 before the conversion, 2
\* before the creation, 3 before the track loop, 3 + (i+1)/N for track i of
\* N, 4 at the end; the steps never decrease and none exceeds the total 4.
C31_ProgressScale ==
    [][\A t \in Jobs :
          Reports(t) =>
             /\ loc'[t].cb_current = Scale(loc'[t])
             /\ FracLeq(loc'[t].cb_current, Frac(total_steps, 1))
             /\ IF pc[t] = "run_migration"
                THEN loc'[t].ret = "fetch_list"
                ELSE /\ loc'[t].ret \in AfterReport(loc[t].ret)
                     /\ FracLeq(loc[t].cb_current, loc'[t].cb_current)]_vars

\* The second of three tracks is reported as step 3 + 2/3
C31_Witness ==
    \E t \in Jobs :
       /\ pc[t] = "cb_progress"
       /\ loc[t].ret = "track_sleep"
       /\ loc[t].i = 1
       /\ Len(loc[t].tracks) = 3
       /\ loc[t].cb_current = Frac(11, 3)


(***************************************************************************)
(* C32.  Who changes the tokens of the connectors of a running job.        *)
(***************************************************************************)
\* C32: while a job runs, the access token and the refresh token of the
\* connectors it uses are changed by steps of the job only, never by a
\* request that is served meanwhile.
C32_OnlyTheJobChangesTokens ==
    [][((\E t \in Jobs : Migrating(t))
          /\ (conn'.spotify # conn.spotify \/ conn'.youtube # conn.youtube))
         => response' = NoResponse]_vars


(***************************************************************************)
(* C33.  What the engine does with the answer to a search.                 *)
(***************************************************************************)
\* The first element of the list carries a video identifier
Usable(search_results) ==
    search_results # << >> /\ search_results[1].videoId # None

\* C33: a search asks for one result at most and only the first result
\* counts.  An insertion is attempted exactly when the search returned a
\* list whose first element carries a video identifier; otherwise the track
\* is counted as failed, nothing is inserted and no error is raised.
C33_InsertOnlyFirstResult ==
    [][\A t \in Jobs :
          /\ (pc[t] = "search" /\ calls'[t].searches = calls[t].searches + 1
                 /\ calls'[t].raised = calls[t].raised)
               => /\ Len(calls'[t].results) <= 1
                  /\ pc'[t] = "add" <=> Usable(calls'[t].results)
                  /\ ~Usable(calls'[t].results) =>
                        /\ pc'[t] = "loop_head"
                        /\ loc'[t].failed = loc[t].failed + 1
                        /\ loc'[t].migrated = loc[t].migrated
                        /\ loc'[t].i = loc[t].i + 1
                        /\ calls'[t].inserts = calls[t].inserts
                        /\ loc'[t].exc = NoExc
          /\ calls'[t].inserts = calls[t].inserts + 1 => Usable(calls[t].results)]_vars

\* A search has returned one result without video identifier: the track is
\* counted as failed and the loop goes on with nothing inserted
C33_Witness ==
    \E t \in Jobs :
       /\ pc[t] = "loop_head"
       /\ calls[t].results = << Item(None) >>
       /\ loc[t].failed = 1
       /\ loc[t].i = 1
       /\ calls[t].inserts = 0


(***************************************************************************)
(* C34.  The conversion.                                                   *)
(***************************************************************************)
\* The places of the items that are tracks: those whose "track" object, or
\* the item itself when it has none, is of type "track"
TrackPlaces(items) ==
    {k \in 1..Len(items) :
        \/ items[k].track # << >> /\ items[k].track[1].type = "track"
        \/ items[k].track = << >> /\ items[k].type = "track"}

\* C34: the conversion never fails and keeps the order: the tracks it
\* returns are the fetched items of type 'track', each once and in source
\* order, and every other item is skipped.
C34_ConversionKeepsTracksInOrder ==
    [][\A t \in Jobs :
          pc[t] = "convert" =>
             LET items == loc[t].data[1]
                 tracks == loc'[t].tracks
                 places == TrackPlaces(items)
             IN  /\ pc'[t] = "cb_progress"
                 /\ loc'[t].ret = "create"
                 /\ loc'[t].exc = NoExc
                 /\ Len(tracks) = Cardinality(places)
                 /\ \A k \in places :
                       tracks[Cardinality({q \in places : q <= k})].id = k]_vars

\* An episode between two tracks has been skipped
C34_Witness ==
    \E t \in Jobs :
       /\ pc[t] = "cb_progress"
       /\ loc[t].ret = "create"
       /\ Len(loc[t].data[1]) = 3
       /\ loc[t].data[1][2].track = << TrackObject(2, "episode") >>
       /\ loc[t].tracks = << Track(1, fromisoformat(AddedAt)), Track(3, None) >>


(***************************************************************************)
(* C35.  The limiters of the engine.                                       *)
(***************************************************************************)
\* C35: every call of a connector method, the first attempt and every
\* retry, comes after one acquire() of its own on the limiter of that
\* service: the source limiter for the listing and for each page, the
\* destination limiter for the creation, each search and each insertion.
\* An acquire() on one limiter leaves the record of the other as it is.
C35_OneAcquirePerCall ==
    [][\A t \in Jobs :
          /\ calls'[t].acquires.spotify = calls'[t].source_calls
          /\ calls'[t].acquires.youtube =
                calls'[t].creates + calls'[t].searches + calls'[t].inserts
          /\ calls'[t].acquires.spotify > calls[t].acquires.spotify
                => /\ calls'[t].acquires.spotify = calls[t].acquires.spotify + 1
                   /\ calls'[t].acquires.youtube = calls[t].acquires.youtube
          /\ calls'[t].acquires.youtube > calls[t].acquires.youtube
                => /\ calls'[t].acquires.youtube = calls[t].acquires.youtube + 1
                   /\ calls'[t].acquires.spotify = calls[t].acquires.spotify]_vars

\* The second attempt of an insertion has failed: the destination limiter
\* has been acquired for the creation, the search and both attempts
C35_Witness ==
    \E t \in Jobs :
       /\ pc[t] = "add_except"
       /\ loc[t].attempt = 1
       /\ calls[t].inserts = 2
       /\ calls[t].acquires.youtube = 4


(***************************************************************************)
(* C36.  The counters of the track loop.                                   *)
(***************************************************************************)
\* Thread t has finished the track at hand and not yet turned to the next
TrackDone(t) ==
    \/ pc[t] = "track_sleep"
    \/ pc[t] \in {"cb_progress", "cb_description"} /\ loc[t].ret = "track_sleep"

\* Thread t has left the track loop
LoopDone(t) ==
    pc[t] \in {"cb_progress", "cb_description"} /\ loc[t].ret = "rm_success"

\* C36: once the first i tracks have been processed, migrated_tracks +
\* failed_tracks = i and migrated_tracks is the number of insertions that
\* succeeded; when the loop ends the two add up to the number of tracks.
C36_CountersAddUp ==
    \A t \in Jobs :
       /\ pc[t] \in {"loop_head", "search", "add", "add_except", "add_backoff"}
             => /\ loc[t].migrated + loc[t].failed = loc[t].i
                /\ loc[t].migrated = calls[t].inserted
       /\ TrackDone(t)
             => /\ loc[t].migrated + loc[t].failed = loc[t].i + 1
                /\ loc[t].migrated = calls[t].inserted
       /\ LoopDone(t)
             => /\ loc[t].migrated + loc[t].failed = Len(loc[t].tracks)
                /\ loc[t].migrated = calls[t].inserted

\* The loop over three tracks has ended with two insertions and one failure
C36_Witness ==
    \E t \in Jobs :
       /\ LoopDone(t)
       /\ Len(loc[t].tracks) = 3
       /\ loc[t].migrated = 2
       /\ loc[t].failed = 1
       /\ calls[t].inserted = 2


(***************************************************************************)
(* C37.  A fetch that is retried after a page has failed.                  *)
(***************************************************************************)
\* C37: when a page request has failed after pages had been collected and
\* the fetch is tried again, the playlist that the fetch returns holds every
\* item of the source once and in source order: nothing that the failed
\* attempt had collected is kept or doubled.
C37_RetriedFetchStartsOver ==
    [][\A t \in Jobs :
          (pc[t] = "fetch_page" /\ calls[t].dropped > 0 /\ loc'[t].data # << >>)
             => LET n == SourceSize(loc[t].playlist_id)
                    items == loc'[t].data[1]
                IN  /\ Len(items) = n
                    /\ \A k \in 1..n : items[k] = SourceItem(n, k)]_vars

\* The fetch of 237 items has returned at its third attempt, after one
\* attempt had failed with 100 and one with 200 items collected
C37_Witness ==
    \E t \in Jobs :
       /\ pc[t] = "cb_progress"
       /\ loc[t].ret = "convert"
       /\ Len(loc[t].data[1]) = 237
       /\ calls[t].dropped = 300
       /\ loc[t].attempt = 2


(***************************************************************************)
(* C38.  The lookup of the playlist in the user's listing.                 *)
(***************************************************************************)
\* C38: when the id asked for is that of one of the user's playlists, the
\* fetch finds it and does not fail with 'not found', however many
\* playlists the user has and wherever the playlist stands in the listing.
C38_OwnPlaylistIsFound ==
    [][\A t \in Jobs :
          (pc[t] = "fetch_list"
             /\ \E k \in 1..Len(UserPlaylists(loc[t].playlist_id)) :
                   UserPlaylists(loc[t].playlist_id)[k] = loc[t].playlist_id)
              => ~(/\ pc'[t] = "fetch_except"
                   /\ loc'[t].exc.msg =
                         "Playlist with ID " \o loc[t].playlist_id \o " not found")]_vars


(***************************************************************************)
(* C39.  The record that a RateLimiter keeps.                              *)
(***************************************************************************)
\* C39: after any number of calls of acquire() by one caller the record
\* holds max_calls timestamps at most, and each of them is the time at which
\* the call that recorded it returned.
C39_RecordHoldsReturnTimes ==
    limiter.at = "out"
        => /\ Len(limiter.calls) <= limiter.max_calls
           /\ limiter.calls =
                 SubSeq(limiter.returned,
                        Len(limiter.returned) - Len(limiter.calls) + 1,
                        Len(limiter.returned))

====
